---- MODULE Spec2Model ----
(***************************************************************************)
(* One run of a generated end-to-end script (run_test of                   *)
(* src/testsprite_tests/TC*.py): acquisition of the engine driver, the     *)
(* browser, the context and the page, the primary navigation, the          *)
(* best-effort readiness waits, the script's own steps, the finally block  *)
(* and the exit of asyncio.run.  Every call into the browser-automation    *)
(* library is a step whose result the environment chooses: it returns, it  *)
(* raises, or (when the call carries no timeout) it never returns.         *)
(***************************************************************************)
EXTENDS Integers, Sequences, FiniteSets, TLC

\* Largest number of frames page.frames enumerates (the main frame included).
MaxFrames == 2

\* The scripts whose run is modelled.
Scripts == {"TC002", "TC004_Edit", "TC008_AI", "TC006_CEFR", "TC009_Netlify",
            "TC010"}

\* Local variables of run_test that the finally block tests.
Resources == {"pw", "browser", "context"}

\* Exception classes: async_api.TimeoutError is a subclass of async_api.Error;
\* AssertionError is raised by assert; NameError and TypeError are raised by
\* the interpreter; "Other" is any exception outside the async_api.Error
\* hierarchy (cancellation, interrupt) raised during an await.
Exceptions == {"TimeoutError", "Error", "AssertionError", "NameError",
               "TypeError", "Other"}

NoExc == [cls |-> "none", pc |-> "none", ix |-> 0]

\* An except clause that names async_api.TimeoutError instead.
IsAsyncApiError_TimeoutOnly(cls) == cls = "TimeoutError"

\* A bare `except:` clause.
IsAsyncApiError_Any(cls) == TRUE

\* `except async_api.Error:` matches Error and its subclass TimeoutError.

IsAsyncApiError(cls) == cls \in {"TimeoutError", "Error"}

(***************************************************************************)
(* The statements of the try body after the frame loop, one record per     *)
(* statement: op is the call, line its line in the script, msg the message *)
(* of an assert ("" when the assert has none), arg the index of the        *)
(* viewport a statement of the viewport loop works on (0 elsewhere).       *)
(***************************************************************************)
St(op, line) == [op |-> op, line |-> line, msg |-> "", arg |-> 0]

\* `assert <condition>, msg`
StMsg(op, line, msg) == [op |-> op, line |-> line, msg |-> msg, arg |-> 0]

\* `frame = context.pages[-1]`, `elem = frame.locator(...)`, then the settle
\* wait and the action on one line: locate -> settle wait -> act.
Interact(act, l) == << St("locate", l), St("settle", l + 1), St(act, l + 1) >>

BodyTC002 ==
    << St("goto", 49) >>
    \o Interact("fill", 54) \o Interact("fill", 59) \o Interact("click", 64)
    \o << St("goto", 69),
          St("text_content", 73),
          StMsg("assert_greeting", 74,
                "Login failed or dashboard not loaded properly"),
          St("reload", 77),
          St("text_content", 78),
          StMsg("assert_greeting", 79,
                "Session not maintained after page reload"),
          St("sleep", 80) >>

BodyTC004Edit ==
    << St("goto", 49) >>
    \o Interact("fill", 54) \o Interact("fill", 59) \o Interact("click", 64)
    \o Interact("click", 70) \o Interact("click", 76)
    \o << StMsg("assert_false", 81,
                "Test failed: Expected result unknown, forcing failure."),
          St("sleep", 82) >>

BodyTC008AI ==
    Interact("fill", 50) \o Interact("fill", 55) \o Interact("click", 60)
    \o Interact("click", 66) \o Interact("fill", 72) \o Interact("click", 77)
    \o Interact("fill", 83) \o Interact("click", 88)
    \o << St("locate_frame", 93),
          StMsg("assert_visible", 94,
                "Expected error message about AI service failure is not visible."),
          St("locate_frame", 96),
          StMsg("assert_enabled", 97,
                "The input textarea should be enabled indicating the app is responsive."),
          St("sleep", 98) >>

\* `n = await page.locator(sel).count()` then `assert n > 0`, on two lines.
CountAssert(l) == << St("count", l), St("assert_count", l + 1) >>

\* The same two statements once per element of a list of k texts.
RECURSIVE CountLoop(_, _)
CountLoop(l, k) == IF k = 0 THEN << >> ELSE CountAssert(l) \o CountLoop(l, k - 1)

BodyTC006CEFR ==
    << St("goto", 49) >>
    \o Interact("fill", 54) \o Interact("fill", 59) \o Interact("click", 64)
    \o Interact("click", 70) \o Interact("click", 76) \o Interact("click", 82)
    \o Interact("click", 88) \o Interact("click", 94) \o Interact("click", 100)
    \o Interact("click", 106) \o Interact("click", 112) \o Interact("click", 118)
    \o << St("assert_title", 123) >>
    \o CountAssert(126) \o CountAssert(128)
    \o << St("locate_page", 132), St("assert_visible", 133), St("assert_enabled", 134) >>
    \o CountAssert(137)
    \o CountLoop(143, 5)
    \o CountAssert(147)
    \o CountLoop(153, 4)
    \o << St("sleep", 155) >>

BodyTC009Netlify ==
    << St("goto", 49), St("goto", 53) >>
    \o Interact("fill", 58) \o Interact("fill", 63) \o Interact("click", 68)
    \o << St("goto_resp", 73),
          StMsg("assert_resp", 74,
                "Backend API status endpoint is not accessible or returned an error"),
          St("goto_resp", 76),
          StMsg("assert_resp", 77, "Frontend main page did not load successfully"),
          St("locate", 80), St("locate_frame", 81), St("locate_frame", 82),
          StMsg("assert_visible", 83, "Email input field is not visible"),
          StMsg("assert_visible", 84, "Password input field is not visible"),
          StMsg("assert_visible", 85, "Login button is not visible"),
          St("fill", 87), St("fill", 88), St("click", 89),
          St("settle", 91),
          St("call_first", 93),
          StMsg("assert_visible", 94,
                "App name EdLingo is not visible, indicating frontend may not have loaded correctly"),
          St("sleep", 95) >>

\* lines 148-153 of TC010: the viewports of the responsive-layout loop.
Viewports == << <<1920, 1080>>, <<1366, 768>>, <<768, 1024>>, <<375, 667>> >>

\* A statement of the viewport loop, working on viewport k.
StVp(op, line, k) == [op |-> op, line |-> line, msg |-> "", arg |-> k]

\* lines 155-167 of TC010: one iteration of `for vp in viewports:`.
ViewportProbe(k) ==
    << StVp("set_viewport", 155, k), StVp("settle", 156, k),
       StVp("is_visible", 158, k), StVp("assert_val", 159, k),
       StVp("is_visible", 161, k), StVp("is_visible_and", 162, k),
       StVp("assert_val", 163, k),
       StVp("evaluate", 165, k), StVp("evaluate", 166, k),
       StVp("assert_fits", 167, k) >>

RECURSIVE ViewportLoop(_)
ViewportLoop(k) ==
    IF k > Len(Viewports) THEN << >> ELSE ViewportProbe(k) \o ViewportLoop(k + 1)

\* lines 131-134 of TC010, once per entry of nav_links (10 entries).
RECURSIVE NavLinkLoop(_)
NavLinkLoop(k) ==
    IF k = 0 THEN << >>
    ELSE << St("locate_page", 131), St("assert_visible", 132),
            St("get_attribute", 133), St("assert_val", 134) >>
         \o NavLinkLoop(k - 1)

\* lines 139-140 of TC010, once per entry of profile_options (3 entries).
RECURSIVE ProfileLoop(_)
ProfileLoop(k) ==
    IF k = 0 THEN << >>
    ELSE << St("locate_page", 139), St("assert_visible", 140) >> \o ProfileLoop(k - 1)

\* Line 172 always raises, so the statements after it (173-180) never run.
BodyTC010 ==
    << St("goto", 49) >>
    \o Interact("fill", 54) \o Interact("fill", 59) \o Interact("click", 64)
    \o << St("wheel_window", 69), St("goto", 73) >>
    \o Interact("click", 78) \o Interact("click", 83) \o Interact("click", 88)
    \o << St("wheel_window", 93), St("wheel_window", 97) >>
    \o Interact("click", 102)
    \o << St("assert_title", 107),
          St("is_visible", 110), St("assert_val", 111),
          St("is_visible", 112), St("assert_val", 113),
          St("is_visible", 114), St("assert_val", 115) >>
    \o NavLinkLoop(10)
    \o ProfileLoop(3)
    \o << St("locate_page", 144), St("assert_visible", 145) >>
    \o ViewportLoop(1)
    \o << St("await_locator", 172), St("sleep", 180) >>

Body(s) ==
    CASE s = "TC002" -> BodyTC002
      [] s = "TC004_Edit" -> BodyTC004Edit
      [] s = "TC008_AI" -> BodyTC008AI
      [] s = "TC006_CEFR" -> BodyTC006CEFR
      [] s = "TC009_Netlify" -> BodyTC009Netlify
      [] s = "TC010" -> BodyTC010

\* Calls that navigate, that interact, that read or assert.
NavOps == {"goto", "goto_resp", "reload"}
InteractOps == {"settle", "fill", "click", "set_viewport"}
AssertOps == {"text_content", "assert_greeting", "assert_false",
              "assert_visible", "assert_enabled", "assert_title", "count",
              "assert_count", "assert_resp", "is_visible", "is_visible_and",
              "get_attribute", "evaluate", "assert_val", "assert_fits"}

\* Statements that build a locator: on `frame` after reading
\* context.pages[-1] into it, on `frame` as it is, on `page`.
LocateOps == {"locate", "locate_frame", "locate_page"}

\* Calls made through a locator built by an earlier statement.
LocatorOps == {"fill", "click", "assert_visible", "assert_enabled"}

\* line 26: context.set_default_timeout(5000)
DefaultTimeout == 5000

\* The timeout argument of a call (0: the call passes none): goto passes
\* timeout=10000, click passes timeout=5000, the other calls pass none.
PerCallTimeout(op) ==
    CASE op \in {"goto", "goto_resp"} -> 10000
      [] op = "click" -> 5000
      [] OTHER -> 0

\* The time that bounds a call, dflt being the context's default timeout:
\* the call's own timeout argument if it passes one, else the default; 0 (no
\* bound) for the calls that take no timeout.
EffectiveTimeout(op, dflt) ==
    IF op \in {"assert_visible", "assert_enabled", "assert_title", "count",
               "is_visible", "is_visible_and", "evaluate", "set_viewport"}
    THEN 0
    ELSE IF PerCallTimeout(op) # 0 THEN PerCallTimeout(op) ELSE dflt

\* Statements that read a value from the page into a local variable.
ReadOps == {"text_content", "count", "goto_resp", "is_visible",
            "is_visible_and", "get_attribute", "evaluate"}

\* `assert await <call>`: the call and the assert are one statement.
AwaitAssertOps == {"assert_visible", "assert_enabled", "assert_title"}

\* `assert <expression over local variables>`.
PureAssertOps == {"assert_greeting", "assert_count", "assert_resp",
                  "assert_val", "assert_fits", "assert_false"}

\* Statements that raise before any call into the library is awaited:
\* `window` is not a name of the script (NameError); a Locator is not
\* awaitable and Locator.first is a property, not a method (TypeError).
BrokenOps == {"wheel_window", "await_locator", "call_first"}

\* Statements that suspend run_test in an await.
AwaitOps == NavOps \cup InteractOps \cup ReadOps \cup AwaitAssertOps \cup {"sleep"}

\* Awaited calls that operate on the page (asyncio.sleep does not).
PageOps == AwaitOps \ {"sleep"}

\* Page calls that take no timeout, neither per call nor the default one.
UntimedOps == {"assert_visible", "assert_enabled", "assert_title", "count",
               "is_visible", "is_visible_and", "evaluate", "set_viewport"}

\* Values text_content() can return for the greeting locator.
ReadValues == {"None", "greeting", "other"}

\* The values a read leaves in the local variable an assert then tests,
\* by call (the first one is the value the assert accepts).
ReadsOf(op) ==
    CASE op = "text_content" -> ReadValues
      [] op = "count" -> {"some", "zero"}
      [] op = "goto_resp" -> {"resp_ok", "resp_bad", "None"}
      [] op \in {"is_visible", "get_attribute"} -> {"true", "false"}
      [] op = "evaluate" -> {"width"}
      [] OTHER -> {}

\* The exceptions a body statement can raise, by call.
OpRaises(op) ==
    CASE op \in {"goto", "goto_resp", "reload", "fill", "click",
                 "text_content", "get_attribute"}
            -> {"TimeoutError", "Error", "Other"}
      [] op \in UntimedOps \cup {"settle"} -> {"Error", "Other"}
      [] op = "wheel_window" -> {"NameError"}
      [] op \in {"await_locator", "call_first"} -> {"TypeError"}
      [] OTHER -> {}

\* Stages of a navigation, in the order a document goes through them.
Stages == << "none", "commit", "domcontentloaded", "load" >>

StageSet == {Stages[i] : i \in 1..Len(Stages)}

Rank(s) == CHOOSE i \in 1..Len(Stages) : Stages[i] = s

\* A navigation whose wait_until argument is left out.
WaitUntil_Omitted(where) == "load"

\* The stage a navigation waits for: line 32 passes wait_until="commit"; the
\* goto and reload calls of the scripts' own steps pass none, and the
\* library then waits for "load".
WaitUntil(where) == IF where = "goto_commit" THEN "commit" ELSE "load"

\* What a navigation does when the document got as far as stage reached
\* within the timeout while the call waits for stage wanted.
NavResult(reached, wanted) ==
    IF Rank(reached) >= Rank(wanted)
    THEN {"ok", "Other"}
    ELSE {"TimeoutError", "Error", "Other"}

VARIABLES
    script,      \* the script being run
    overflowFrom,\* first viewport of Viewports the page overflows at (0: none)
    pc,          \* the statement run_test is at
    ip,          \* index of the body statement (0 outside the body)
    local,       \* run_test's pw, browser, context: "None" or "obj"
    page,        \* run_test's page: "unset" or "obj"
    pending,     \* the exception in flight (NoExc if none)
    masked,      \* exceptions replaced by a later one raised in finally
    val,         \* last value read from the page into a local variable
    nframes,     \* length of page.frames when the loop enumerated it
    fi,          \* index of the frame the loop is at
    doc,         \* the stage the page's document has reached
    viewport,    \* index of the viewport size last applied (0: the default)
    defaultTimeout, \* the context's default timeout (0: not set)
    matching,    \* the element that matches the newest locator's selector now
    target,      \* the element the last call through a locator worked on
    popup,       \* the application has opened a second page
    frame,       \* the page run_test's variable `frame` refers to
    awaiting,    \* run_test is suspended in the awaited call at pc
    inflight,    \* page operations issued and not yet completed
    acquired,    \* resources the library handed out
    released,    \* release calls that returned, per resource
    log,         \* the steps executed, in order, with their result
    phase,       \* the scenario state the run is in
    hung,        \* an await without timeout never returned
    outcome,     \* "none", "PASSED" or "FAILED"
    exitcode,    \* -1 before exit, then the process exit status
    rpc,         \* per concurrent run: the statement that run is at
    rlocal,      \* per concurrent run: its pw, browser, context, page
    created,     \* the objects the library created, each with its run
    sessions,    \* pairs <<context, run>>: the context stores the run's login
    uses         \* pairs <<run, object>>: the run called into the object

\* The state of one run.
\* What the steps on the page see of the application: the DOM and the pages.
pageVars == << matching, target, popup, frame >>

runVars == << script, overflowFrom, pc, ip, local, page, pending, masked, val,
              nframes, fi, doc, viewport, defaultTimeout, pageVars, awaiting,
              inflight, acquired, released, log, phase, hung, outcome,
              exitcode >>

\* The state of the runs that execute side by side.
procVars == << rpc, rlocal, created, sessions, uses >>

vars == << runVars, procVars >>

\* Number of runs that execute side by side.
NumRuns == 2

Runs == 1..NumRuns

\* The objects a run holds: lines 5-7 and 29.
Kinds == {"pw", "browser", "context", "page"}

\* No object: the value None of a local variable.
NoObj == [run |-> 0, kind |-> "none", on |-> 0]

Init ==
    /\ script \in Scripts
    /\ overflowFrom \in IF script = "TC010" THEN 0..Len(Viewports) ELSE {0}
    /\ pc = "start"
    /\ ip = 0
    /\ local = [r \in Resources |-> "None"]
    /\ page = "unset"
    /\ pending = NoExc
    /\ masked = << >>
    /\ val = "unread"
    /\ nframes = 0
    /\ fi = 0
    /\ doc = "none"
    /\ viewport = 0
    /\ defaultTimeout = 0
    /\ matching = "none"
    /\ target = "none"
    /\ popup = FALSE
    /\ frame = "unset"
    /\ awaiting = FALSE
    /\ inflight = 0
    /\ acquired = {}
    /\ released = [r \in Resources |-> 0]
    /\ log = << >>
    /\ phase = "INIT"
    /\ hung = FALSE
    /\ outcome = "none"
    /\ exitcode = -1
    /\ rpc = [r \in Runs |-> "start"]
    /\ rlocal = [r \in Runs |-> [k \in Kinds |-> NoObj]]
    /\ created = {}
    /\ sessions = {}
    /\ uses = {}

FinallyPcs == {"finally_context", "finally_browser", "finally_pw"}

\* The resource a statement of the finally block releases.
ResOf(p) ==
    CASE p = "finally_context" -> "context"
      [] p = "finally_browser" -> "browser"
      [] p = "finally_pw" -> "pw"

\* The statement at pc awaits a call into the library.
AtAwait ==
    \/ pc \in {"start", "launch", "new_context", "new_page", "goto_commit",
               "page_wait", "frame_wait"}
    \/ pc = "body" /\ Body(script)[ip].op \in AwaitOps
    \/ pc \in FinallyPcs /\ local[ResOf(pc)] # "None"

\* The awaited call at pc operates on the page.
AtPageOp ==
    \/ pc \in {"goto_commit", "page_wait", "frame_wait"}
    \/ pc = "body" /\ Body(script)[ip].op \in PageOps

\* A page call of the script's own steps that is started as a task and not
\* awaited: run_test goes on to the next statement at once.
Issue_NotAwaited ==
    /\ ~hung /\ ~awaiting /\ AtAwait
    /\ IF pc = "body" /\ AtPageOp /\ ip < Len(Body(script))
       THEN /\ inflight' = inflight + 1
            /\ ip' = ip + 1
            /\ UNCHANGED << awaiting, phase >>
       ELSE /\ awaiting' = TRUE
            /\ inflight' = IF AtPageOp THEN inflight + 1 ELSE inflight
            /\ phase' = IF pc \in FinallyPcs THEN "TEARDOWN" ELSE phase
            /\ UNCHANGED ip
    /\ UNCHANGED << procVars, pageVars, defaultTimeout, script, overflowFrom, pc, local, page, pending, masked,
                    val, nframes, fi, doc, viewport, acquired, released, log,
                    hung, outcome, exitcode >>

\* `await <call>`: the call is issued and run_test is suspended until it
\* completes; the finally block is entered by its first statement.
Issue ==
    /\ ~hung /\ ~awaiting /\ AtAwait
    /\ awaiting' = TRUE
    /\ inflight' = IF AtPageOp THEN inflight + 1 ELSE inflight
    /\ phase' = IF pc \in FinallyPcs THEN "TEARDOWN" ELSE phase
    /\ UNCHANGED << procVars, pageVars, defaultTimeout, script, overflowFrom, pc, ip, local, page, pending, masked,
                    val, nframes, fi, doc, viewport, acquired, released, log,
                    hung, outcome, exitcode >>

\* The statement at pc can complete: its awaited call, if it has one, was
\* issued and did not hang.
Ready == ~hung /\ (AtAwait => awaiting)

\* The statement at pc completed (it returned or raised): run_test is no
\* longer suspended and the call is no longer in flight.
Returned ==
    /\ awaiting' = FALSE
    /\ inflight' = IF awaiting /\ AtPageOp THEN inflight - 1 ELSE inflight

\* An exception that does not carry the statement it was raised at.
Exc_Anonymous(cls) == [cls |-> cls, pc |-> "none", ix |-> 0]

\* The exception raised by the statement at pc (ix: which body statement or
\* which frame).
Exc(cls) == [cls |-> cls, pc |-> pc, ix |-> IF pc = "frame_wait" THEN fi ELSE ip]

\* A record of the statement just executed: where, which body statement or
\* frame, and "ok" or the class of the exception it raised.
Entry(res) == [pc |-> pc, ix |-> IF pc = "frame_wait" THEN fi ELSE ip,
               res |-> res]

\* An exception raised inside the try body: control goes to the finally block.
RaiseInTry(cls) ==
    /\ pending' = Exc(cls)
    /\ pc' = "finally_context"
    /\ ip' = 0
    /\ phase' = "FAILED"
    /\ log' = Append(log, Entry(cls))

\* The statement completed: control goes to the next statement, at pc next.
Continue(next) ==
    /\ pc' = next
    /\ log' = Append(log, Entry("ok"))
    /\ UNCHANGED << pending, ip >>

\* line 11: pw = await async_api.async_playwright().start()
StartPw ==
    /\ pc = "start" /\ Ready /\ Returned
    /\ \/ /\ Continue("launch")
          /\ local' = [local EXCEPT !["pw"] = "obj"]
          /\ acquired' = acquired \cup {"pw"}
          /\ UNCHANGED phase
       \/ /\ \E cls \in {"Error", "Other"} : RaiseInTry(cls)
          /\ UNCHANGED << local, acquired >>
    /\ UNCHANGED << procVars, pageVars, defaultTimeout, script, overflowFrom, page, masked, val, nframes, fi, doc,
                    viewport, released, hung, outcome, exitcode >>

\* A launch that is attempted a second time after its first failure.
Launch_RetryOnce ==
    /\ pc = "launch" /\ Ready
    /\ \/ /\ Continue("new_context")
          /\ Returned
          /\ local' = [local EXCEPT !["browser"] = "obj"]
          /\ acquired' = acquired \cup {"browser"}
          /\ UNCHANGED phase
       \/ /\ \E cls \in {"TimeoutError", "Error", "Other"} :
                IF \E i \in 1..Len(log) : log[i].pc = "launch"
                THEN RaiseInTry(cls) /\ Returned
                ELSE /\ log' = Append(log, Entry(cls))
                     /\ UNCHANGED << pc, ip, pending, phase, awaiting, inflight >>
          /\ UNCHANGED << local, acquired >>
    /\ UNCHANGED << procVars, pageVars, defaultTimeout, script, overflowFrom, page, masked, val, nframes, fi, doc,
                    viewport, released, hung, outcome, exitcode >>

\* lines 14-22: browser = await pw.chromium.launch(...)
Launch ==
    /\ pc = "launch" /\ Ready /\ Returned
    /\ \/ /\ Continue("new_context")
          /\ local' = [local EXCEPT !["browser"] = "obj"]
          /\ acquired' = acquired \cup {"browser"}
          /\ UNCHANGED phase
       \/ /\ \E cls \in {"TimeoutError", "Error", "Other"} : RaiseInTry(cls)
          /\ UNCHANGED << local, acquired >>
    /\ UNCHANGED << procVars, pageVars, defaultTimeout, script, overflowFrom, page, masked, val, nframes, fi, doc,
                    viewport, released, hung, outcome, exitcode >>

\* line 25: context = await browser.new_context()
NewContext ==
    /\ pc = "new_context" /\ Ready /\ Returned
    /\ \/ /\ Continue("set_default_timeout")
          /\ local' = [local EXCEPT !["context"] = "obj"]
          /\ acquired' = acquired \cup {"context"}
          /\ UNCHANGED phase
       \/ /\ \E cls \in {"Error", "Other"} : RaiseInTry(cls)
          /\ UNCHANGED << local, acquired >>
    /\ UNCHANGED << procVars, pageVars, defaultTimeout, script, overflowFrom, page, masked, val, nframes, fi, doc,
                    viewport, released, hung, outcome, exitcode >>

\* line 26: context.set_default_timeout(5000)
SetDefaultTimeout ==
    /\ pc = "set_default_timeout" /\ Ready /\ Returned
    /\ \/ /\ Continue("new_page")
          /\ defaultTimeout' = DefaultTimeout
          /\ UNCHANGED phase
       \/ RaiseInTry("Error") /\ UNCHANGED defaultTimeout
    /\ UNCHANGED << procVars, pageVars, script, overflowFrom, local, page, masked, val, nframes,
                    fi, doc, viewport, acquired, released, hung, outcome,
                    exitcode >>

\* line 29: page = await context.new_page()
NewPage ==
    /\ pc = "new_page" /\ Ready /\ Returned
    /\ \/ /\ Continue("goto_commit")
          /\ page' = "obj"
          /\ UNCHANGED phase
       \/ /\ \E cls \in {"Error", "Other"} : RaiseInTry(cls)
          /\ UNCHANGED page
    /\ UNCHANGED << procVars, pageVars, defaultTimeout, script, overflowFrom, local, masked, val, nframes, fi, doc,
                    viewport, acquired, released, hung, outcome, exitcode >>

\* The scenario state a body statement belongs to (building a locator and
\* the closing sleep belong to the state the run is already in).
PhaseOf(op) ==
    CASE op \in NavOps -> "NAVIGATING"
      [] op \in InteractOps -> "INTERACTING"
      [] op \in AssertOps -> "ASSERTING"
      [] OTHER -> phase

\* A primary navigation whose timeout is dropped like that of a best-effort
\* wait.
GotoCommit_BestEffort ==
    /\ pc = "goto_commit" /\ Ready /\ Returned
    /\ \E st \in StageSet : \E res \in NavResult(st, WaitUntil("goto_commit")) :
          /\ doc' = st
          /\ IF res = "ok"
             THEN Continue("page_wait") /\ phase' = "NAVIGATING"
             ELSE IF res = "TimeoutError"
             THEN /\ pc' = "page_wait"
                  /\ log' = Append(log, Entry("TimeoutError"))
                  /\ phase' = "NAVIGATING"
                  /\ UNCHANGED << pending, ip >>
             ELSE RaiseInTry(res)
    /\ UNCHANGED << procVars, pageVars, defaultTimeout, script, overflowFrom, local, page, masked, val, nframes,
                    fi, viewport, acquired, released, hung, outcome, exitcode >>

\* line 32: await page.goto(url, wait_until="commit", timeout=10000)
GotoCommit ==
    /\ pc = "goto_commit" /\ Ready /\ Returned
    /\ \E st \in StageSet : \E res \in NavResult(st, WaitUntil("goto_commit")) :
          /\ doc' = st
          /\ IF res = "ok"
             THEN Continue("page_wait") /\ phase' = "NAVIGATING"
             ELSE RaiseInTry(res)
    /\ UNCHANGED << procVars, pageVars, defaultTimeout, script, overflowFrom, local, page, masked, val, nframes,
                    fi, viewport, acquired, released, hung, outcome, exitcode >>

\* A best-effort wait raised cls inside `try: ... except async_api.Error: pass`:
\* a matching exception is dropped and control goes on at pc next.
Suppress(cls, next) ==
    IF IsAsyncApiError(cls)
    THEN /\ pc' = next
         /\ log' = Append(log, Entry(cls))
         /\ UNCHANGED << pending, ip, phase >>
    ELSE RaiseInTry(cls)

\* lines 35-38: the best-effort page.wait_for_load_state("domcontentloaded"),
\* during which the document may get further.
PageWait ==
    /\ pc = "page_wait" /\ Ready /\ Returned
    /\ \E st \in StageSet : \E res \in NavResult(st, "domcontentloaded") :
          /\ Rank(st) >= Rank(doc)
          /\ doc' = st
          /\ IF res = "ok"
             THEN Continue("enum_frames") /\ UNCHANGED phase
             ELSE Suppress(res, "enum_frames")
    /\ UNCHANGED << procVars, pageVars, defaultTimeout, script, overflowFrom, local, page, masked, val, nframes,
                    fi, viewport, acquired, released, hung, outcome, exitcode >>

\* line 41: `for frame in page.frames:` takes the list of attached frames,
\* which always holds the main frame.
EnumFrames ==
    /\ pc = "enum_frames" /\ Ready /\ Returned
    /\ \E n \in 1..MaxFrames : nframes' = n
    /\ fi' = 1
    /\ pc' = "frame_wait"
    /\ UNCHANGED << procVars, pageVars, defaultTimeout, script, overflowFrom, ip, local, page, pending, masked,
                    val, doc, viewport, acquired, released, log, phase, hung,
                    outcome, exitcode >>

\* Where the frame loop goes after the wait on frame fi: the next frame, or
\* the first statement of the script's own steps.
AfterFrame == IF fi < nframes THEN "frame_wait" ELSE "body"

\* The wait on frame fi is over (it returned, or its exception was dropped).
FrameNext(res) ==
    /\ pc' = AfterFrame
    /\ log' = Append(log, Entry(res))
    /\ ip' = IF fi < nframes THEN ip ELSE 1
    /\ fi' = IF fi < nframes THEN fi + 1 ELSE fi
    /\ UNCHANGED << pending, phase >>

\* A frame loop whose try/except encloses the loop instead of its body: the
\* first failing wait ends the loop.
FrameWait_LeaveOnError ==
    /\ pc = "frame_wait" /\ Ready /\ Returned
    /\ \/ FrameNext("ok")
       \/ \E cls \in {"TimeoutError", "Error", "Other"} :
             IF IsAsyncApiError(cls)
             THEN /\ pc' = "body"
                  /\ ip' = 1
                  /\ log' = Append(log, Entry(cls))
                  /\ UNCHANGED << fi, pending, phase >>
             ELSE RaiseInTry(cls) /\ UNCHANGED fi
    /\ UNCHANGED << procVars, pageVars, defaultTimeout, script, overflowFrom, local, page, masked, val, nframes,
                    doc, viewport, acquired, released, hung, outcome,
                    exitcode >>

\* lines 42-45: one iteration of the frame loop
FrameWait ==
    /\ pc = "frame_wait" /\ Ready /\ Returned
    /\ \/ FrameNext("ok")
       \/ \E cls \in {"TimeoutError", "Error", "Other"} :
             IF IsAsyncApiError(cls)
             THEN FrameNext(cls)
             ELSE RaiseInTry(cls) /\ UNCHANGED fi
    /\ UNCHANGED << procVars, pageVars, defaultTimeout, script, overflowFrom, local, page, masked, val, nframes,
                    doc, viewport, acquired, released, hung, outcome,
                    exitcode >>

\* The body statement at ip completed: the next statement, or, after the
\* last one, the end of the try body.
StepOk ==
    /\ log' = Append(log, Entry("ok"))
    /\ UNCHANGED pending
    /\ IF ip < Len(Body(script))
       THEN /\ ip' = ip + 1
            /\ phase' = PhaseOf(Body(script)[ip].op)
            /\ UNCHANGED pc
       ELSE /\ ip' = 0
            /\ pc' = "finally_context"
            /\ phase' = "PASSED"

\* `assert v is not None and 'Good evening!' in v`
GreetingHolds(v) == v = "greeting"

\* `assert scroll_width <= client_width` with viewport k applied: the
\* document is no wider than the viewport.
Fits(k) == overflowFrom = 0 \/ k < overflowFrom

\* The condition of `assert <expression over local variables>` at statement
\* st, v being the value last read.
Holds(st, v) ==
    CASE st.op = "assert_greeting" -> GreetingHolds(v)
      [] st.op = "assert_count" -> v = "some"
      [] st.op = "assert_resp" -> v = "resp_ok"
      [] st.op = "assert_val" -> v = "true"
      [] st.op = "assert_fits" -> Fits(viewport)
      [] st.op = "assert_false" -> FALSE

\* context.pages[-1]: the page the context opened last.
LastPage == IF popup THEN "popup" ELSE "page"

\* A handle on the element that matched when the locator was built.
LocatorTarget_Snapshot(m) == "elemA"

\* The element a call through a locator works on: locator() builds a
\* description, which is resolved when the call is made, so the call works
\* on the element m that matches at that moment.
LocatorTarget(m) == m

\* One statement of the script's own steps (everything between the frame
\* loop and `finally:`).
BodyStep ==
    /\ pc = "body" /\ Ready /\ Returned
    /\ LET st == Body(script)[ip]
           op == st.op
       IN
       \/ /\ op \in NavOps
          /\ \E s \in StageSet : \E res \in NavResult(s, WaitUntil("body")) :
                /\ doc' = s
                /\ IF res = "ok"
                   THEN /\ StepOk
                        /\ IF op \in ReadOps
                           THEN \E v \in ReadsOf(op) : val' = v
                           ELSE UNCHANGED val
                   ELSE RaiseInTry(res) /\ UNCHANGED val
          /\ UNCHANGED << viewport, matching, target, frame >>
       \/ /\ op \in LocateOps
          /\ StepOk
          /\ matching' = "elemA"
          /\ frame' = IF op = "locate" THEN LastPage ELSE frame
          /\ UNCHANGED << val, doc, viewport, target >>
       \/ /\ op \in {"settle", "sleep"}
          /\ StepOk
          /\ UNCHANGED << val, doc, viewport, matching, target, frame >>
       \/ /\ op \in {"fill", "click"}
          /\ StepOk
          /\ target' = LocatorTarget(matching)
          /\ UNCHANGED << val, doc, viewport, matching, frame >>
       \/ /\ op = "set_viewport"
          /\ viewport' = st.arg
          /\ StepOk
          /\ UNCHANGED << val, doc, matching, target, frame >>
       \/ /\ op \in ReadOps \ NavOps
          /\ IF op = "is_visible_and"
             THEN \E v \in ReadsOf("is_visible") :
                     val' = IF val = "true" THEN v ELSE "false"
             ELSE \E v \in ReadsOf(op) : val' = v
          /\ StepOk
          /\ UNCHANGED << doc, viewport, matching, target, frame >>
       \/ /\ op \in PureAssertOps
          /\ IF Holds(st, val) THEN StepOk ELSE RaiseInTry("AssertionError")
          /\ UNCHANGED << val, doc, viewport, matching, target, frame >>
       \/ /\ op \in AwaitAssertOps
          /\ \E b \in BOOLEAN :
                IF b THEN StepOk ELSE RaiseInTry("AssertionError")
          /\ target' = IF op \in LocatorOps THEN LocatorTarget(matching)
                        ELSE target
          /\ UNCHANGED << val, doc, viewport, matching, frame >>
       \/ /\ \E cls \in OpRaises(op) : RaiseInTry(cls)
          /\ UNCHANGED << val, doc, viewport, matching, target, frame >>
    /\ UNCHANGED << procVars, popup, defaultTimeout, script, overflowFrom, local, page, masked, nframes, fi,
                    acquired, released, hung, outcome, exitcode >>

\* A finally block whose releases are each guarded on their own: after a
\* release that raised, the next one is still attempted.
RaiseInFinally_Independent(cls) ==
    /\ masked' = IF pending = NoExc THEN masked ELSE Append(masked, pending)
    /\ pending' = Exc(cls)
    /\ pc' = CASE pc = "finally_context" -> "finally_browser"
                [] pc = "finally_browser" -> "finally_pw"
                [] OTHER -> "exit"
    /\ log' = Append(log, Entry(cls))
    /\ UNCHANGED released

\* An exception raised inside the finally block: it replaces the exception
\* in flight, if any, and leaves run_test at once.
RaiseInFinally(cls) ==
    /\ masked' = IF pending = NoExc THEN masked ELSE Append(masked, pending)
    /\ pending' = Exc(cls)
    /\ pc' = "exit"
    /\ log' = Append(log, Entry(cls))
    /\ UNCHANGED released

\* A release that is called without testing the local variable first.
Release_Unguarded(r, next) ==
    /\ phase' = "TEARDOWN"
    /\ \/ /\ pc' = next
          /\ released' = [released EXCEPT ![r] = @ + 1]
          /\ log' = Append(log, Entry("ok"))
          /\ UNCHANGED << pending, masked >>
       \/ \E cls \in {"Error", "Other"} : RaiseInFinally(cls)
    /\ UNCHANGED << procVars, pageVars, defaultTimeout, script, overflowFrom,
                    ip, local, page, val, nframes, fi, doc, viewport, acquired,
                    hung, outcome, exitcode >>

\* `if x: await x.close()` for the local variable r, then on to pc next.
Release(r, next) ==
    /\ phase' = "TEARDOWN"
    /\ IF local[r] = "None"
       THEN /\ pc' = next
            /\ UNCHANGED << pending, masked, log, released >>
       ELSE \/ /\ pc' = next
               /\ released' = [released EXCEPT ![r] = @ + 1]
               /\ log' = Append(log, Entry("ok"))
               /\ UNCHANGED << pending, masked >>
            \/ \E cls \in {"Error", "Other"} : RaiseInFinally(cls)
    /\ UNCHANGED << procVars, pageVars, defaultTimeout, script, overflowFrom, ip, local, page, val, nframes, fi,
                    doc, viewport, acquired, hung, outcome, exitcode >>

\* A finally block that goes on to the browser without closing the context.
CloseContext_Skipped ==
    /\ pc = "finally_context" /\ Ready /\ Returned
    /\ pc' = "finally_browser"
    /\ phase' = "TEARDOWN"
    /\ UNCHANGED << procVars, pageVars, defaultTimeout, script, overflowFrom,
                    ip, local, page, pending, masked, val, nframes, fi, doc,
                    viewport, acquired, released, log, hung, outcome,
                    exitcode >>

\* lines 83-84: if context: await context.close()
CloseContext ==
    pc = "finally_context" /\ Ready /\ Returned
    /\ Release("context", "finally_browser")

\* lines 85-86: if browser: await browser.close()
CloseBrowser ==
    pc = "finally_browser" /\ Ready /\ Returned
    /\ Release("browser", "finally_pw")

\* lines 87-88: if pw: await pw.stop()
StopPw == pc = "finally_pw" /\ Ready /\ Returned /\ Release("pw", "exit")

\* An exit status that ignores the exception that left run_test.
ExitStatus_AlwaysZero(p) == 0

\* line 90: asyncio.run(run_test()) returns, or the exception that left
\* run_test propagates and the interpreter exits with status 1.
ExitStatus(p) == IF p = NoExc THEN 0 ELSE 1

Exit ==
    /\ pc = "exit" /\ Ready /\ Returned
    /\ pc' = "done"
    /\ phase' = "DONE"
    /\ exitcode' = ExitStatus(pending)
    /\ outcome' = IF ExitStatus(pending) = 0 THEN "PASSED" ELSE "FAILED"
    /\ UNCHANGED << procVars, pageVars, defaultTimeout, script, overflowFrom, ip, local, page, pending, masked,
                    val, nframes, fi, doc, viewport, acquired, released, log,
                    hung >>

\* The awaits that carry no timeout, neither per call nor the context's
\* default: start(), new_context(), new_page(), the three release calls,
\* and the page calls of UntimedOps.
AtUntimedAwait ==
    \/ pc \in {"start", "new_context", "new_page"}
    \/ pc \in FinallyPcs /\ local[ResOf(pc)] # "None"
    \/ pc = "body" /\ Body(script)[ip].op \in UntimedOps

\* An await without timeout never returns: run_test stays suspended in it.
Hang ==
    /\ ~hung /\ awaiting /\ AtUntimedAwait
    /\ hung' = TRUE
    /\ UNCHANGED << procVars, pageVars, defaultTimeout, script, overflowFrom, pc, ip, local, page, pending, masked,
                    val, nframes, fi, doc, viewport, awaiting, inflight,
                    acquired, released, log, phase, outcome, exitcode >>

Next ==
    \/ Issue
    \/ StartPw \/ Launch \/ NewContext \/ SetDefaultTimeout \/ NewPage
    \/ GotoCommit \/ PageWait \/ EnumFrames \/ FrameWait
    \/ BodyStep
    \/ CloseContext \/ CloseBrowser \/ StopPw
    \/ Exit
    \/ Hang

Spec == Init /\ [][Next]_vars

\* Every step that is not suspended in an await without timeout is taken.
FairSpec == Spec /\ WF_vars(Next)

(***************************************************************************)
(* The application under test acting on its own while the script's steps   *)
(* run: it changes the DOM and it opens a second page.                     *)
(***************************************************************************)

\* The application changes the DOM: another element now matches the
\* selector of the newest locator.
DomChange ==
    /\ pc = "body" /\ ~hung
    /\ matching = "elemA"
    /\ matching' = "elemB"
    /\ UNCHANGED << procVars, target, popup, frame, defaultTimeout, script,
                    overflowFrom, pc, ip, local, page, pending, masked, val,
                    nframes, fi, doc, viewport, awaiting, inflight, acquired,
                    released, log, phase, hung, outcome, exitcode >>

\* The application opens a second page (a popup or a new tab) in the
\* context: context.pages[-1] is that page from then on.
OpenPopup ==
    /\ pc = "body" /\ ~hung
    /\ ~popup
    /\ popup' = TRUE
    /\ UNCHANGED << procVars, matching, target, frame, defaultTimeout, script,
                    overflowFrom, pc, ip, local, page, pending, masked, val,
                    nframes, fi, doc, viewport, awaiting, inflight, acquired,
                    released, log, phase, hung, outcome, exitcode >>

\* The scripts followed with the application acting on its own.
AppScripts == {"TC002", "TC008_AI", "TC009_Netlify"}

AppInit == Init /\ script \in AppScripts

AppNext == Next \/ DomChange \/ OpenPopup

AppSpec == AppInit /\ [][AppNext]_vars

(***************************************************************************)
(* Several runs side by side.  Each run is its own interpreter process     *)
(* (`asyncio.run(run_test())` at the end of each script); what a run holds *)
(* are the local variables of its run_test.  Each run is followed through  *)
(* the calls that create, use and release objects of the library.          *)
(***************************************************************************)

\* The object of kind k of the lowest-numbered run that created one (NoObj
\* if none): what a module-level variable assigned once and shared by the
\* runs would hold.
Handle_ModuleLevel(r, k) ==
    LET S == {o \in created : o.kind = k}
    IN  IF S = {} THEN NoObj ELSE CHOOSE o \in S : \A q \in S : o.run <= q.run

\* lines 5-7, 11-29: pw, browser, context and page are local variables of
\* run_test, assigned from the run's own calls.
Handle(r, k) == rlocal[r][k]

\* The object a creating call is made on, the kind it creates and the
\* statement that follows: pw.chromium.launch, browser.new_context,
\* context.new_page (start() is called on no object).
CreateStep(p) ==
    CASE p = "start" -> [on |-> "none", kind |-> "pw", next |-> "launch"]
      [] p = "launch" -> [on |-> "pw", kind |-> "browser", next |-> "new_context"]
      [] p = "new_context" -> [on |-> "browser", kind |-> "context", next |-> "new_page"]
      [] p = "new_page" -> [on |-> "context", kind |-> "page", next |-> "goto"]

\* lines 11-29 in run r: the library returns a new object, created on the
\* object the call was made on, or raises.  new_context() is called without
\* storage state, so the new context stores no session.
RunCreate(r) ==
    /\ rpc[r] \in {"start", "launch", "new_context", "new_page"}
    /\ LET c == CreateStep(rpc[r])
           on == IF c.on = "none" THEN NoObj ELSE Handle(r, c.on)
           new == [run |-> r, kind |-> c.kind, on |-> on.run]
       IN
       /\ uses' = IF c.on = "none" THEN uses ELSE uses \cup {<< r, on >>}
       /\ \/ /\ created' = created \cup {new}
             /\ rlocal' = [rlocal EXCEPT ![r][c.kind] = new]
             /\ rpc' = [rpc EXCEPT ![r] = c.next]
          \/ /\ rpc' = [rpc EXCEPT ![r] = "finally_context"]
             /\ UNCHANGED << created, rlocal >>
    /\ UNCHANGED sessions
    /\ UNCHANGED runVars

\* line 32 in run r: the navigation on the run's page.
RunGoto(r) ==
    /\ rpc[r] = "goto"
    /\ uses' = uses \cup {<< r, Handle(r, "page") >>}
    /\ \/ rpc' = [rpc EXCEPT ![r] = "login"]
       \/ rpc' = [rpc EXCEPT ![r] = "finally_context"]
    /\ UNCHANGED << created, sessions, rlocal >>
    /\ UNCHANGED runVars

\* The context a page belongs to: the one new_page() was called on.
ContextOf(pg) == [run |-> pg.on, kind |-> "context", on |-> pg.on]

\* The fills and the click that sign the user in, in run r: the session is
\* stored in the context the page belongs to.
RunLogin(r) ==
    /\ rpc[r] = "login"
    /\ uses' = uses \cup {<< r, Handle(r, "page") >>}
    /\ \/ /\ sessions' = sessions \cup {<< ContextOf(Handle(r, "page")), r >>}
          /\ rpc' = [rpc EXCEPT ![r] = "finally_context"]
       \/ /\ rpc' = [rpc EXCEPT ![r] = "finally_context"]
          /\ UNCHANGED sessions
    /\ UNCHANGED << created, rlocal >>
    /\ UNCHANGED runVars

\* The statement after a statement of the finally block.
AfterRelease(p) ==
    CASE p = "finally_context" -> "finally_browser"
      [] p = "finally_browser" -> "finally_pw"
      [] p = "finally_pw" -> "done"

\* The finally block in run r: `if x: await x.close()`.
RunRelease(r) ==
    /\ rpc[r] \in FinallyPcs
    /\ IF Handle(r, ResOf(rpc[r])) = NoObj
       THEN /\ rpc' = [rpc EXCEPT ![r] = AfterRelease(rpc[r])]
            /\ UNCHANGED uses
       ELSE /\ uses' = uses \cup {<< r, Handle(r, ResOf(rpc[r])) >>}
            /\ \/ rpc' = [rpc EXCEPT ![r] = AfterRelease(rpc[r])]
               \/ rpc' = [rpc EXCEPT ![r] = "done"]
    /\ UNCHANGED << created, sessions, rlocal >>
    /\ UNCHANGED runVars

RunsNext ==
    \/ \E r \in Runs : RunCreate(r)
    \/ \E r \in Runs : RunGoto(r)
    \/ \E r \in Runs : RunLogin(r)
    \/ \E r \in Runs : RunRelease(r)

\* The runs side by side, each an instance of script TC002.
RunsInit == Init /\ script = "TC002"

RunsSpec == RunsInit /\ [][RunsNext]_vars

(***************************************************************************)
(* Vocabulary of the properties.                                           *)
(***************************************************************************)

\* The statements of the scenario proper: navigation, interaction, assertion.
ScenarioPcs == {"goto_commit", "body"}

\* The best-effort readiness waits.
WaitPcs == {"page_wait", "frame_wait"}

Idx == 1..Len(log)

Failed(i) == log[i].res # "ok"

\* Some assert statement failed.
AssertionFailed == \E i \in Idx : log[i].res = "AssertionError"

\* A timeout was raised outside the best-effort waits, where nothing catches it.
UnhandledTimeout ==
    \E i \in Idx : log[i].res = "TimeoutError" /\ log[i].pc \notin WaitPcs

\* A timeout was raised in a best-effort wait.
HandledTimeout ==
    \E i \in Idx : log[i].res = "TimeoutError" /\ log[i].pc \in WaitPcs

\* C1: when the run is over, every resource acquired during it (engine
\* driver, browser, context) has been released exactly once, whichever way
\* the try body was left.
C1_AcquiredReleasedOnce ==
    /\ \A r \in Resources : released[r] <= 1
    /\ pc = "done" => \A r \in acquired : released[r] = 1

\* C2: a run has no outcome before it ends and exactly one when it ends:
\* PASSED with exit status 0 and no exception, only if no assertion failed
\* and no timeout went unhandled; FAILED with a propagating exception and a
\* non-zero status, always when an assertion failed or a timeout went
\* unhandled.
C2_ExactlyOneOutcome ==
    /\ pc # "done" => outcome = "none" /\ exitcode = -1
    /\ pc = "done" =>
          /\ outcome \in {"PASSED", "FAILED"}
          /\ outcome = "PASSED" =>
                /\ exitcode = 0 /\ pending = NoExc
                /\ ~AssertionFailed /\ ~UnhandledTimeout
          /\ outcome = "FAILED" => exitcode # 0 /\ pending # NoExc
          /\ (AssertionFailed \/ UnhandledTimeout) => outcome = "FAILED"

\* The login script ran to the end although best-effort waits timed out.
C2_Witness ==
    /\ pc = "done" /\ script = "TC002"
    /\ outcome = "PASSED" /\ exitcode = 0
    /\ HandledTimeout

ScenarioPhases == {"NAVIGATING", "INTERACTING", "ASSERTING"}

\* The exception that the statement of log entry i raised.
ExcOf(i) == [cls |-> log[i].res, pc |-> log[i].pc, ix |-> log[i].ix]

\* The call of the body statement of log entry i.
OpOf(i) == Body(script)[log[i].ix].op

\* The transitions of the scenario state machine: INIT, then the scenario
\* states, then PASSED or FAILED, then TEARDOWN, then DONE.
C3_Edge(p, q) ==
    \/ p = q
    \/ p = "INIT" /\ q \in {"NAVIGATING", "FAILED"}
    \/ p \in ScenarioPhases /\ q \in ScenarioPhases \cup {"PASSED", "FAILED"}
    \/ p \in {"PASSED", "FAILED"} /\ q = "TEARDOWN"
    \/ p = "TEARDOWN" /\ q = "DONE"

\* The step executes no statement, or a release call of the finally block.
OnlyReleaseLogged == log' = log \/ log'[Len(log')].pc \in FinallyPcs

\* C3: the run moves along INIT -> scenario states -> PASSED | FAILED ->
\* TEARDOWN -> DONE; TEARDOWN is entered only from PASSED or FAILED; once
\* TEARDOWN has begun no navigation, wait, interaction or assertion executes;
\* every run that reaches PASSED or FAILED reaches TEARDOWN and then DONE.
C3_StateMachine ==
    /\ [][C3_Edge(phase, phase')]_vars
    /\ [][(phase \in {"TEARDOWN", "DONE"}) => OnlyReleaseLogged]_vars
    /\ (phase \in {"PASSED", "FAILED"}) ~> (phase = "TEARDOWN")
    /\ (phase = "TEARDOWN") ~> (phase = "DONE")

\* Creating the context, setting its timeout or opening the page failed.
CreationFailed ==
    \E i \in Idx : /\ log[i].pc \in {"new_context", "set_default_timeout",
                                     "new_page"}
                   /\ Failed(i)

\* C4: when context or page creation fails after a successful launch, the
\* browser and the engine driver have both been released when the run ends,
\* and the run ends FAILED.
C4_CreationFailureReleases ==
    (pc = "done" /\ CreationFailed) =>
        /\ released["browser"] = 1
        /\ released["pw"] = 1
        /\ outcome = "FAILED"

LaunchFailed == \E i \in Idx : log[i].pc = "launch" /\ Failed(i)

\* C5: when chromium.launch fails the run aborts at once: launch was called
\* once, no browser, context or page exists, nothing but release calls
\* follows, and the run ends FAILED.
C5_LaunchFailureAborts ==
    LaunchFailed =>
        /\ Cardinality({i \in Idx : log[i].pc = "launch"}) = 1
        /\ acquired = {"pw"}
        /\ local["browser"] = "None" /\ local["context"] = "None"
        /\ page = "unset"
        /\ \A i \in Idx : log[i].pc \in {"start", "launch"} \cup FinallyPcs
        /\ pc \in FinallyPcs \cup {"exit", "done"}
        /\ pc = "done" => outcome = "FAILED"

\* The launch timed out and the run is over, the engine driver stopped.
C5_Witness ==
    /\ pc = "done"
    /\ \E i \in Idx : log[i].pc = "launch" /\ log[i].res = "TimeoutError"
    /\ released["pw"] = 1
    /\ outcome = "FAILED"

\* An assertion failed, or a fill or click failed.
ScenarioFailure(i) ==
    \/ log[i].res = "AssertionError"
    \/ /\ log[i].pc = "body"
       /\ OpOf(i) \in {"fill", "click"}
       /\ log[i].res \in {"TimeoutError", "Error"}

TeardownFailure(i) == log[i].pc \in FinallyPcs /\ Failed(i)

\* C6: when a scenario step failed and a release call then fails too, the
\* exception the run reports is the one of the scenario step.
C6_TeardownDoesNotMask ==
    pc = "done" =>
        \A i, j \in Idx :
            (ScenarioFailure(i) /\ TeardownFailure(j)) => pending = ExcOf(i)

\* A navigation, interaction or assertion statement failed.
StepFailure(i) == log[i].pc \in ScenarioPcs /\ Failed(i)

\* C7: the first failing step ends the scenario: no navigation, wait,
\* interaction or assertion follows it, teardown runs, and the run reports
\* that failure and no other.
C7_FirstFailureEnds ==
    \A i \in Idx :
        StepFailure(i) =>
            /\ \A j \in Idx : j > i => log[j].pc \in FinallyPcs
            /\ pc \in FinallyPcs \cup {"exit", "done"}
            /\ pc = "done" => pending = ExcOf(i) /\ masked = << >>

PrimaryNavTimedOut ==
    \E i \in Idx : log[i].pc = "goto_commit" /\ log[i].res = "TimeoutError"

\* C8: when the primary navigation times out, no best-effort wait, no frame
\* enumeration, no interaction and no assertion executes; the finally block
\* runs and the run then ends FAILED.
C8_PrimaryTimeoutFatal ==
    PrimaryNavTimedOut =>
        /\ \A i \in Idx : log[i].pc \notin WaitPcs \cup {"body"}
        /\ nframes = 0
        /\ pc \in FinallyPcs \cup {"exit", "done"}
        /\ pc = "done" => /\ outcome = "FAILED"
                          /\ \E i \in Idx : log[i].pc = "finally_context"

\* The primary navigation timed out, teardown released everything, FAILED.
C8_Witness ==
    /\ PrimaryNavTimedOut
    /\ pc = "done" /\ outcome = "FAILED"
    /\ \A r \in Resources : released[r] = 1

\* C9: a page-level domcontentloaded wait that fails or times out
\* (async_api.Error, async_api.TimeoutError) is not propagated: the run is
\* then in the state a successful wait leaves it in, about to enumerate the
\* frames, so what follows and how the run ends are the same.
C9_PageWaitSwallowed ==
    [][(/\ pc = "page_wait"
        /\ Len(log') = Len(log) + 1
        /\ log'[Len(log')].res \in {"TimeoutError", "Error"})
       =>
       (/\ pc' = "enum_frames"
        /\ pending' = NoExc
        /\ awaiting' = FALSE /\ inflight' = inflight - 1
        /\ UNCHANGED << procVars, pageVars, defaultTimeout, script,
                        overflowFrom, ip, local, page, pending, masked,
                        val, nframes, fi, viewport, acquired, released, phase,
                        hung, outcome, exitcode >>)]_vars

\* The page-level wait failed and the first fill or click was then executed.
C9_Witness ==
    /\ \E i \in Idx : log[i].pc = "page_wait" /\ log[i].res = "Error"
    /\ \E i \in Idx : /\ log[i].pc = "body" /\ log[i].res = "ok"
                      /\ OpOf(i) \in {"fill", "click"}

\* The result of the wait on frame k: "none" while it was not attempted.
FrameRes(k) ==
    IF \E i \in Idx : log[i].pc = "frame_wait" /\ log[i].ix = k
    THEN log[CHOOSE i \in Idx : log[i].pc = "frame_wait" /\ log[i].ix = k].res
    ELSE "none"

\* C10: a failed wait on a frame (async_api.Error, async_api.TimeoutError) is
\* not the exception in flight, the wait on the next enumerated frame is
\* attempted after it, and once the script's own steps begin every
\* enumerated frame has been waited on exactly once.
C10_FrameLoopTolerant ==
    /\ \A k \in 1..nframes :
          FrameRes(k) \in {"TimeoutError", "Error"} =>
              /\ ~(pending.pc = "frame_wait" /\ pending.ix = k)
              /\ k < nframes => \/ FrameRes(k + 1) # "none"
                                \/ pc = "frame_wait" /\ fi = k + 1
              /\ k = nframes => \/ pc = "body"
                                \/ \E i \in Idx : log[i].pc = "body"
    /\ (pc = "body" \/ \E i \in Idx : log[i].pc = "body") =>
          \A k \in 1..nframes :
              Cardinality({i \in Idx : log[i].pc = "frame_wait"
                                       /\ log[i].ix = k}) = 1

\* The wait on the first frame timed out, the wait on the second was made
\* and the script's own steps began.
C10_Witness ==
    /\ nframes >= 2
    /\ FrameRes(1) = "TimeoutError"
    /\ FrameRes(2) # "none"
    /\ pc = "body"

\* The result of the statement that has just completed.
LastRes == log'[Len(log')].res

\* The awaited call at pc has just completed (it returned or raised).
Completes == awaiting /\ ~awaiting'

\* C11: the primary navigation, made with readiness "commit", returns
\* successfully as soon as the document has committed, whatever later stage
\* the document reaches or fails to reach; it succeeds only if the document
\* committed, and it times out only if it did not.
C11_CommitReturnsAtCommit ==
    [][(pc = "goto_commit" /\ Completes)
       =>
       (/\ Rank(doc') >= Rank("commit") => LastRes \in {"ok", "Other"}
        /\ LastRes = "ok" => Rank(doc') >= Rank("commit"))]_vars

\* The primary navigation returned with the document committed and no
\* further, the page-level wait for domcontentloaded then timed out, and
\* the script's own steps began.
C11_Witness ==
    /\ doc = "commit"
    /\ \E i \in Idx : log[i].pc = "goto_commit" /\ log[i].res = "ok"
    /\ \E i \in Idx : log[i].pc = "page_wait" /\ log[i].res = "TimeoutError"
    /\ pc = "body"

\* C12: every fill and every click that was executed comes right after a
\* settle wait that returned, and is itself a call bounded by a timeout.
C12_SettleBeforeAction ==
    \A i \in Idx :
        (log[i].pc = "body" /\ OpOf(i) \in {"fill", "click"}) =>
            /\ i > 1
            /\ log[i - 1].pc = "body"
            /\ OpOf(i - 1) = "settle"
            /\ log[i - 1].res = "ok"
            /\ OpOf(i) \notin UntimedOps

AtBoundedPoint ==
    /\ awaiting
    /\ \/ pc \in {"goto_commit", "page_wait", "frame_wait"}
       \/ pc \in FinallyPcs
       \/ /\ pc = "body"
          /\ Body(script)[ip].op \in {"settle", "fill", "click", "goto",
                                       "goto_resp", "reload"}

\* C14: each of these suspension points is bounded by a timeout, and every
\* run eventually ends.
C14_RunTerminates ==
    /\ [](AtBoundedPoint => ~AtUntimedAwait)
    /\ <>(pc = "done")

\* C15: at most one operation on the page is in flight at any time, and the
\* one in flight is the one run_test is suspended in.
C15_OneOperationInFlight ==
    /\ inflight <= 1
    /\ inflight = 1 => awaiting /\ AtPageOp
    /\ (awaiting /\ AtPageOp) => inflight = 1

\* A click is in flight after an earlier fill completed.
C15_Witness ==
    /\ pc = "body" /\ awaiting /\ inflight = 1
    /\ Body(script)[ip].op = "click"
    /\ \E i \in Idx : log[i].pc = "body" /\ OpOf(i) = "fill" /\ log[i].res = "ok"

\* C16: runs that execute side by side each hold objects of their own: a
\* run calls only into objects its own calls created on its own objects, no
\* object is held by two runs, and a context is handed out storing no
\* session and only ever stores the session of the run that created it.
C16_RunsIsolated ==
    /\ \A u \in uses : u[2] \in created /\ u[2].run = u[1] /\ u[2].on \in {0, u[1]}
    /\ \A r, s \in Runs : \A k \in Kinds :
          r # s /\ rlocal[r][k] # NoObj => rlocal[r][k] # rlocal[s][k]
    /\ \A r \in Runs :
          rpc[r] = "new_page" =>
              ~ \E q \in Runs : << rlocal[r]["context"], q >> \in sessions
    /\ \A e \in sessions : e[1] \in created /\ e[1].run = e[2]

\* Two runs are both signed in, each in its own context, and neither has
\* released anything yet.
C16_Witness ==
    /\ \A r \in {1, 2} : /\ rpc[r] = "finally_context"
                         /\ rlocal[r]["page"] # NoObj
                         /\ << rlocal[r]["context"], r >> \in sessions
    /\ rlocal[1]["context"] # rlocal[2]["context"]

\* The body statement log entry i records.
StOf(i) == Body(script)[log[i].ix]

\* C17: a count assertion that fails because its selector matched no
\* element fails with an AssertionError whose message is there to name the
\* selector.
C17_CountAssertNamesSelector ==
    \A i \in Idx :
        (log[i].pc = "body" /\ OpOf(i) = "assert_count" /\ Failed(i)) =>
            /\ log[i].res = "AssertionError"
            /\ StOf(i).msg # ""

\* Entry i is a failure that the library or the page caused: a call that
\* raised, or an assertion other than the overflow check that did not hold.
ExternalFailure(i) ==
    \/ log[i].res \in {"TimeoutError", "Error", "Other"}
    \/ /\ log[i].res = "AssertionError"
       /\ log[i].pc = "body" /\ OpOf(i) # "assert_fits"

\* The run of TC010 has ended and nothing outside the script made it fail.
ProbeRunEnded ==
    /\ script = "TC010" /\ pc = "done"
    /\ \A i \in Idx : ~ExternalFailure(i)

\* C18: when the page overflows at one of the viewports, the run of the
\* viewport probe ends with the AssertionError of the overflow check made
\* at that viewport, whose message records the viewport, and no later
\* viewport is applied.
C18_OverflowFailsProbe ==
    (ProbeRunEnded /\ overflowFrom > 0) =>
        /\ pending.cls = "AssertionError" /\ pending.pc = "body"
        /\ Body(script)[pending.ix].op = "assert_fits"
        /\ Body(script)[pending.ix].arg = overflowFrom
        /\ Body(script)[pending.ix].msg # ""
        /\ viewport = overflowFrom

\* Entry i records a viewport size that was applied.
Applied(i) == log[i].pc = "body" /\ OpOf(i) = "set_viewport" /\ log[i].res = "ok"

\* C19: on a page that overflows at no viewport, the viewport probe applies
\* every viewport size, in list order, with no navigation between two of
\* them, and each resize is followed at once by a settle wait that returns.
C19_ViewportsInOrder ==
    (ProbeRunEnded /\ overflowFrom = 0) =>
        /\ viewport = Len(Viewports)
        /\ \A k \in 1..Len(Viewports) :
              \E i \in Idx : Applied(i) /\ StOf(i).arg = k
        /\ \A i, j \in Idx :
              (i < j /\ Applied(i) /\ Applied(j)) =>
                  /\ StOf(i).arg < StOf(j).arg
                  /\ \A l \in (i + 1)..(j - 1) :
                        ~(log[l].pc = "body" /\ OpOf(l) \in NavOps)
        /\ \A i \in Idx :
              Applied(i) => /\ i < Len(log)
                            /\ log[i + 1].pc = "body"
                            /\ OpOf(i + 1) = "settle"
                            /\ log[i + 1].res = "ok"

StepDone(op, line) ==
    \E i \in Idx : /\ log[i].pc = "body" /\ log[i].res = "ok"
                   /\ StOf(i).op = op /\ StOf(i).line = line

\* The body statement at this line failed.
StepFailed(line) ==
    \E i \in Idx : log[i].pc = "body" /\ Failed(i) /\ StOf(i).line = line

\* The release call on resource r was made and raised.
ReleaseRaised(r) ==
    \E i \in Idx : /\ log[i].pc \in FinallyPcs /\ ResOf(log[i].pc) = r
                   /\ Failed(i)

\* The browser and the engine driver, if acquired, have been released once,
\* or at least their release was called.
SessionReleased ==
    \A r \in {"browser", "pw"} :
        r \in acquired => released[r] = 1 \/ ReleaseRaised(r)

\* C22: when a run of the login script ends, it reports PASSED only if the
\* two fills and the click completed and the greeting was read and
\* accepted; it reports FAILED if reading the greeting timed out or the
\* check on it failed; and either way the browser and the engine driver
\* have been released exactly once.
C22_LoginOutcome ==
    (script = "TC002" /\ pc = "done") =>
        /\ outcome = "PASSED" =>
              /\ StepDone("fill", 55) /\ StepDone("fill", 60)
              /\ StepDone("click", 65)
              /\ StepDone("text_content", 73) /\ StepDone("assert_greeting", 74)
        /\ (StepFailed(73) \/ StepFailed(74)) => outcome = "FAILED"
        /\ SessionReleased

\* C23: in the finally block a release of the browser is started only after
\* the context, if one was acquired, has been released, and the engine
\* driver is stopped only after the browser, if one was acquired, has been
\* released.
C23_ContextBeforeSession ==
    /\ (released["browser"] >= 1 \/ (pc = "finally_browser" /\ awaiting)) =>
          ("context" \in acquired => released["context"] = 1)
    /\ (released["pw"] >= 1 \/ (pc = "finally_pw" /\ awaiting)) =>
          ("browser" \in acquired => released["browser"] = 1)

\* Context, browser and engine driver were all acquired and all released.
C23_Witness ==
    /\ pc = "done"
    /\ acquired = Resources
    /\ \A r \in Resources : released[r] = 1

\* C24: every navigation that succeeds is followed by the staged readiness
\* waits, and a navigation whose document reached domcontentloaded does not
\* fail for want of a later stage.
C24_EveryNavigationStaged ==
    [][(/\ Completes
        /\ \/ pc = "goto_commit"
           \/ (pc = "body" /\ Body(script)[ip].op \in NavOps))
       =>
       (/\ LastRes = "ok" => pc' = "page_wait"
        /\ Rank(doc') >= Rank("domcontentloaded") =>
              LastRes \in {"ok", "Other"})]_vars

\* The calls on an element of the page.
ElementOps ==
    LocatorOps \cup {"text_content", "get_attribute", "count", "is_visible",
                     "is_visible_and"}

\* C25: the default timeout is set to 5000 once the context exists and
\* before the page is opened, it never changes afterwards, and every call
\* on an element is bounded by its own timeout argument if it passes one
\* and by the default timeout otherwise.
C25_DefaultTimeoutBounds ==
    /\ [](/\ page = "obj" => defaultTimeout = DefaultTimeout
          /\ defaultTimeout # 0 => "context" \in acquired
          /\ (/\ pc = "body" /\ awaiting
              /\ Body(script)[ip].op \in ElementOps) =>
                 EffectiveTimeout(Body(script)[ip].op, defaultTimeout) =
                     IF PerCallTimeout(Body(script)[ip].op) # 0
                     THEN PerCallTimeout(Body(script)[ip].op)
                     ELSE DefaultTimeout)
    /\ [][defaultTimeout # 0 => defaultTimeout' = defaultTimeout]_vars

\* C26: the page that `frame` refers to, on which the interaction steps
\* build their locators, is the page the variable `page` refers to, on
\* which the settle waits and the assertions work.
C26_SameDocument == frame \in {"unset", "page"}

\* C27: the acquired resources are a prefix of the chain engine driver,
\* browser, context, page, and a release is called, and returns, only for
\* a resource that was acquired.
C27_AcquiredPrefix ==
    /\ "browser" \in acquired => "pw" \in acquired
    /\ "context" \in acquired => "browser" \in acquired
    /\ page = "obj" => "context" \in acquired
    /\ \A r \in Resources : released[r] > 0 => r \in acquired
    /\ \A i \in Idx :
          log[i].pc \in FinallyPcs => ResOf(log[i].pc) \in acquired
    /\ (pc \in FinallyPcs /\ awaiting) => ResOf(pc) \in acquired

\* The launch failed: the run ended with the engine driver released and no
\* release called for the browser or the context.
C27_Witness ==
    /\ pc = "done"
    /\ acquired = {"pw"} /\ released["pw"] = 1
    /\ Cardinality({i \in Idx : log[i].pc \in FinallyPcs}) = 1

\* C28: a release that raises is the last statement of the finally block
\* to execute: the releases after it are not called, so the resources they
\* would release stay unreleased.
C28_ReleasesChained ==
    \A i \in Idx :
        TeardownFailure(i) =>
            /\ i = Len(log)
            /\ pc \in {"exit", "done"}
            /\ log[i].pc = "finally_context" =>
                  released["browser"] = 0 /\ released["pw"] = 0
            /\ log[i].pc = "finally_browser" => released["pw"] = 0

\* context.close() raised with the browser and the engine driver acquired,
\* and the run ended with neither released.
C28_Witness ==
    /\ pc = "done"
    /\ acquired = Resources
    /\ \E i \in Idx : log[i].pc = "finally_context" /\ Failed(i)
    /\ released["browser"] = 0 /\ released["pw"] = 0

\* C29: an exception that is not an async_api.Error, raised during the
\* page-level or a frame-level wait, is not dropped: no wait and no step
\* follows it, the finally block runs, and the run ends FAILED.
C29_OnlyApiErrorsSuppressed ==
    \A i \in Idx :
        (log[i].pc \in WaitPcs /\ log[i].res = "Other") =>
            /\ \A j \in Idx : j > i => log[j].pc \in FinallyPcs
            /\ pc \in FinallyPcs \cup {"exit", "done"}
            /\ phase \in {"FAILED", "TEARDOWN", "DONE"}
            /\ pending # NoExc
            /\ pc = "done" => outcome = "FAILED"

\* The wait on the first of two frames raised such an exception, the wait
\* on the second was not made, the context was released and the run ended
\* FAILED.
C29_Witness ==
    /\ pc = "done" /\ outcome = "FAILED"
    /\ nframes = 2
    /\ FrameRes(1) = "Other" /\ FrameRes(2) = "none"
    /\ released["context"] = 1

\* The scripts with a statement that always raises, and the index of the
\* first such statement among the script's own steps.
DoomedScripts == {"TC004_Edit", "TC010"}

FirstDoomed(s) ==
    CHOOSE k \in 1..Len(Body(s)) :
        /\ Body(s)[k].op \in {"assert_false", "wheel_window"}
        /\ \A j \in 1..(k - 1) : Body(s)[j].op \notin {"assert_false", "wheel_window"}

\* C30: a run of such a script never reports PASSED, executes no statement
\* after the one that always raises, and, once past the primary navigation,
\* ends FAILED with the browser and the engine driver released.
C30_DoomedNeverPasses ==
    script \in DoomedScripts =>
        /\ outcome # "PASSED"
        /\ \A i \in Idx :
              log[i].pc = "body" => log[i].ix <= FirstDoomed(script)
        /\ (pc = "done" /\ \E i \in Idx : log[i].pc = "goto_commit"
                                          /\ log[i].res = "ok") =>
              outcome = "FAILED" /\ SessionReleased

====
